---- MODULE Spec2Model ----
(***************************************************************************)
(* Model of analyse_strava_data.py: the cached loader read_csv, the query  *)
(* functions over the loaded table and the four dashboard views.           *)
(*                                                                         *)
(* Units.  A distance is an integer number of 1/10000 km, so that the      *)
(* rounding to 3 decimals the code performs is visible (it rounds to a     *)
(* multiple of 10).  A duration is an integer number of seconds.  A speed  *)
(* is an integer number of 1/100 km/h.  A text is a sequence of            *)
(* one-character strings, so that formatting and parsing are computed.     *)
(*                                                                         *)
(* Frames.  A pandas DataFrame is [index, columns, rows]: the index labels *)
(* in row order, the column names in column order, and one function from   *)
(* column name to value per row.  Python names refer to objects, so the    *)
(* functions work on an environment [s, v, shown]: the store s of the      *)
(* DataFrame objects, the binding v of names to objects, and what was      *)
(* handed to the page.  An operation that returns a new DataFrame adds an  *)
(* object; an inplace operation or an item assignment overwrites the       *)
(* object the name is bound to, for every name bound to it.                *)
(***************************************************************************)
EXTENDS Integers, Sequences, FiniteSets, TLC

VARIABLES csv_file, cache, df, op, arg, out

vars == <<csv_file, cache, df, op, arg, out>>

----------------------------------------------------------------------------
(* Bounds of the model *)

\* rows of the input file
MaxRows == 2

\* largest n passed to the top-n queries
MaxN == 3

----------------------------------------------------------------------------
(* Texts *)

DigitChars == <<"0", "1", "2", "3", "4", "5", "6", "7", "8", "9">>

DigitChar(d) == DigitChars[d + 1]

DigitVal(c) == CHOOSE d \in 0..9 : DigitChars[d + 1] = c

IsDigit(c) == \E d \in 0..9 : DigitChars[d + 1] = c

\* str(n), n >= 0
RECURSIVE Str(_)
Str(n) == IF n < 10 THEN <<DigitChar(n)>>
          ELSE Append(Str(n \div 10), DigitChar(n % 10))

\* int(s) of a text of digits
RECURSIVE ParseInt(_)
ParseInt(s) == IF Len(s) = 0 THEN 0
               ELSE 10 * ParseInt(SubSeq(s, 1, Len(s) - 1)) + DigitVal(s[Len(s)])

\* the format specification 0w: zeros on the left up to a MINIMUM width w
RECURSIVE ZeroPad(_, _)
ZeroPad(s, w) == IF Len(s) >= w THEN s ELSE ZeroPad(<<"0">> \o s, w)

\* f"{n:02}"
Format02(n) == ZeroPad(Str(n), 2)

\* the fields of a text separated by sep
RECURSIVE Split(_, _)
Split(s, sep) ==
    IF \A i \in 1..Len(s) : s[i] # sep THEN <<s>>
    ELSE LET i == CHOOSE k \in 1..Len(s) : s[k] = sep /\ \A j \in 1..(k - 1) : s[j] # sep
         IN <<SubSeq(s, 1, i - 1)>> \o Split(SubSeq(s, i + 1, Len(s)), sep)

\* lexicographic order of texts of digits (the order of Python strings)
RECURSIVE LexLess(_, _)
LexLess(s, t) ==
    IF Len(t) = 0 THEN FALSE
    ELSE IF Len(s) = 0 THEN TRUE
    ELSE IF s[1] # t[1] THEN DigitVal(s[1]) < DigitVal(t[1])
    ELSE LexLess(Tail(s), Tail(t))

----------------------------------------------------------------------------
(* Arithmetic *)

\* the integer nearest to num/den, a tie going to the even one (num >= 0, den > 0)
RoundHalfEven(num, den) ==
    LET q == num \div den
        r == num % den
    IN IF 2 * r < den THEN q
       ELSE IF 2 * r > den THEN q + 1
       ELSE IF q % 2 = 0 THEN q ELSE q + 1

\* .round(3) of a distance
Round3(x) == 10 * RoundHalfEven(x, 10)

\* .round(3) of the quotient of a distance by a count
Round3Div(x, n) == 10 * RoundHalfEven(x, 10 * n)

RECURSIVE SumSeq(_)
SumSeq(s) == IF Len(s) = 0 THEN 0 ELSE s[1] + SumSeq(Tail(s))

RECURSIVE MaxSeq(_)
MaxSeq(s) == IF Len(s) = 1 THEN s[1]
             ELSE LET m == MaxSeq(Tail(s)) IN IF s[1] >= m THEN s[1] ELSE m

Range(s) == {s[i] : i \in 1..Len(s)}

\* the elements of s at the positions where the mask is TRUE, in order
RECURSIVE Mask(_, _)
Mask(s, m) == IF Len(s) = 0 THEN <<>>
              ELSE (IF m[1] THEN <<s[1]>> ELSE <<>>) \o Mask(Tail(s), Tail(m))

\* the distinct elements of s in order of first appearance (Series.unique)
RECURSIVE Unique(_)
Unique(s) == IF Len(s) = 0 THEN <<>>
             ELSE LET u == Unique(SubSeq(s, 1, Len(s) - 1))
                  IN IF s[Len(s)] \in Range(u) THEN u ELSE Append(u, s[Len(s)])

----------------------------------------------------------------------------
(* Dates *)

MonthAbbr == <<"Jan", "Feb", "Mar", "Apr", "May", "Jun",
               "Jul", "Aug", "Sep", "Oct", "Nov", "Dec">>

IsLeap(y) == y % 4 = 0 /\ (y % 100 # 0 \/ y % 400 = 0)

DaysBeforeMonth(y, m) ==
    <<0, 31, 59, 90, 120, 151, 181, 212, 243, 273, 304, 334>>[m]
    + (IF m > 2 /\ IsLeap(y) THEN 1 ELSE 0)

DaysBeforeYear(y) ==
    (y - 1) * 365 + (y - 1) \div 4 - (y - 1) \div 100 + (y - 1) \div 400

\* days from 1970-01-01 to the date
EpochDay(t) ==
    DaysBeforeYear(t.year) + DaysBeforeMonth(t.year, t.month) + t.day
    - (DaysBeforeYear(1970) + 1)

\* seconds from 1970-01-01T00:00:00 to the instant; an Activity Date is at midnight
EpochSec(t) == EpochDay(t) * 86400 + t.sec

\* pd.to_datetime(text, format="%Y-%m-%d")
ParseDate(s) ==
    LET f == Split(s, "-")
    IN [year |-> ParseInt(f[1]), month |-> ParseInt(f[2]), day |-> ParseInt(f[3]),
        sec |-> 0]

\* pd.to_datetime(seconds, unit="s"): the instant that many seconds after
\* 1970-01-01T00:00:00 (durations below 31 days); strftime reads its time of day
FromSeconds(d) ==
    [year |-> 1970, month |-> 1, day |-> 1 + d \div 86400, sec |-> d % 86400]

\* pd.to_datetime(text, format="%m"): the first day of that month of 1900
ParseMonth(s) == [year |-> 1900, month |-> ParseInt(s), day |-> 1, sec |-> 0]

\* strftime("%m")
Strf_m(t) == Format02(t.month)

\* strftime("%b")
Strf_b(t) == MonthAbbr[t.month]

\* strftime("%Y")
Strf_Y(t) == ZeroPad(Str(t.year), 4)

\* strftime("%H:%M:%S"): the time of day of the instant
Strf_HMS(t) ==
    Format02(t.sec \div 3600) \o <<":">> \o Format02((t.sec % 3600) \div 60)
    \o <<":">> \o Format02(t.sec % 60)

\* strftime("%b %d, %Y")
Strf_bdY(t) == <<Strf_b(t), " ">> \o Format02(t.day) \o <<",", " ">> \o Strf_Y(t)

----------------------------------------------------------------------------
(* Frames *)

EmptyFrame == [index |-> <<>>, columns |-> <<>>, rows |-> <<>>]

NRows(f) == Len(f.rows)

\* f[c]: the values of column c in row order
Column(f, c) == [i \in 1..NRows(f) |-> f.rows[i][c]]

\* f[c] = vals: column c is overwritten, or added as the last column
SetColumn(f, c, vals) ==
    [f EXCEPT !.columns = IF c \in Range(f.columns) THEN f.columns
                          ELSE Append(f.columns, c),
              !.rows = [i \in 1..NRows(f) |-> (c :> vals[i]) @@ f.rows[i]]]

\* f[c] = the value val of each row
WithColumn(f, c, val(_)) == SetColumn(f, c, [i \in 1..NRows(f) |-> val(f.rows[i])])

\* f[c] = the value val of each index label
WithColumnOfIndex(f, c, val(_)) == SetColumn(f, c, [i \in 1..NRows(f) |-> val(f.index[i])])

\* f.drop(cs, axis=1)
DropColumns(f, cs) ==
    [f EXCEPT !.columns = SelectSeq(f.columns, LAMBDA c : c \notin cs),
              !.rows = [i \in 1..NRows(f) |->
                            [c \in (DOMAIN f.rows[i]) \ cs |-> f.rows[i][c]]]]

\* f[[c1, c2, ...]]
SelectColumns(f, cols) ==
    [f EXCEPT !.columns = cols,
              !.rows = [i \in 1..NRows(f) |-> [c \in Range(cols) |-> f.rows[i][c]]]]

\* f[mask]
MaskRows(f, m) ==
    [f EXCEPT !.index = Mask(f.index, m), !.rows = Mask(f.rows, m)]

\* f.take(pos): the rows at the positions pos, in that order, with their labels
TakeRows(f, pos) ==
    [f EXCEPT !.index = [i \in 1..Len(pos) |-> f.index[pos[i]]],
              !.rows = [i \in 1..Len(pos) |-> f.rows[pos[i]]]]

\* f.rename(columns=m): m maps some old names to new ones
RenameColumns(f, m) ==
    LET new(c) == IF c \in DOMAIN m THEN m[c] ELSE c
        old(d) == CHOOSE c \in Range(f.columns) : new(c) = d
    IN [f EXCEPT !.columns = [i \in 1..Len(f.columns) |-> new(f.columns[i])],
                 !.rows = [i \in 1..NRows(f) |->
                               [d \in {new(c) : c \in Range(f.columns)} |->
                                    f.rows[i][old(d)]]]]

\* f.set_index(c): column c becomes the index and leaves the columns
SetIndex(f, c) ==
    [index |-> Column(f, c),
     columns |-> SelectSeq(f.columns, LAMBDA x : x # c),
     rows |-> [i \in 1..NRows(f) |->
                   [x \in (DOMAIN f.rows[i]) \ {c} |-> f.rows[i][x]]]]

\* the positions of the n largest values, largest first, equal values in their
\* original order (keep="first"); nothing for n <= 0
RECURSIVE NLargestPos(_, _, _)
NLargestPos(vals, n, taken) ==
    LET free == (1..Len(vals)) \ taken
    IN IF n <= 0 \/ free = {} THEN <<>>
       ELSE LET p == CHOOSE i \in free :
                        \A j \in free : vals[i] > vals[j] \/ (vals[i] = vals[j] /\ i <= j)
            IN <<p>> \o NLargestPos(vals, n - 1, taken \cup {p})

\* the first n rows as they stand: head(n) in place of nlargest
NLargestHead(f, n, c) ==
    TakeRows(f, [i \in 1..(IF n < NRows(f) THEN n ELSE NRows(f)) |-> i])

\* DataFrame.nlargest(n, c)
NLargest(f, n, c) == TakeRows(f, NLargestPos(Column(f, c), n, {}))

\* the texts of a set in ascending string order
RECURSIVE SortTexts(_)
SortTexts(S) ==
    IF S = {} THEN <<>>
    ELSE LET m == CHOOSE x \in S : \A y \in S : ~LexLess(y, x)
         IN <<m>> \o SortTexts(S \ {m})

\* the dates of a set in ascending order
RECURSIVE SortDates(_)
SortDates(S) ==
    IF S = {} THEN <<>>
    ELSE LET m == CHOOSE x \in S : \A y \in S : EpochSec(x) <= EpochSec(y)
         IN <<m>> \o SortDates(S \ {m})

\* the values of column c in the rows of f whose column k is key, in row order
GroupValues(f, k, key, c) ==
    LET g == SelectSeq(f.rows, LAMBDA r : r[k] = key)
    IN [i \in 1..Len(g) |-> g[i][c]]

----------------------------------------------------------------------------
(* Objects and names *)

\* the object the name df of main is bound to
SrcRef == 1

\* a script run that holds the loaded table f as df
Env(f) == [s |-> <<f>>, v |-> ("df" :> SrcRef), shown |-> <<>>]

\* the frame a name stands for
Obj(e, name) == e.s[e.v[name]]

\* name = <an expression that makes a new DataFrame f>
Assign(e, name, f) ==
    [e EXCEPT !.s = Append(e.s, f), !.v = (name :> (Len(e.s) + 1)) @@ e.v]

\* name = other: one more name of the same object
Alias(e, name, other) == [e EXCEPT !.v = (name :> e.v[other]) @@ e.v]

\* the object of name becomes f: inplace=True, or name[c] = ...
Mutate(e, name, f) == [e EXCEPT !.s[e.v[name]] = f]

\* st.metric, st.plotly_chart, st.dataframe: the value goes to the page
Show(e, label, value) == [e EXCEPT !.shown = (label :> value) @@ e.shown]

\* target = name.nlargest(n, c) done by sorting and truncating the object itself
nlargest_inplace(e, target, name, n, c) ==
    Alias(Mutate(e, name, NLargest(Obj(e, name), n, c)), target, name)

\* target = name.nlargest(n, c): a new object
nlargest(e, target, name, n, c) == Assign(e, target, NLargest(Obj(e, name), n, c))

\* name.drop(cs, axis=1, inplace=True)
drop_inplace(e, name, cs) == Mutate(e, name, DropColumns(Obj(e, name), cs))

\* target = name[condition]: a new object
getitem_mask(e, target, name, m) == Assign(e, target, MaskRows(Obj(e, name), m))

\* target = name[[columns]]: a new object
getitem_columns(e, target, name, cols) == Assign(e, target, SelectColumns(Obj(e, name), cols))

\* name.set_index(c, inplace=True)
set_index_inplace(e, name, c) == Mutate(e, name, SetIndex(Obj(e, name), c))

----------------------------------------------------------------------------
(* The input file *)

CsvColumns == <<"Recorded On", "Activity Date", "Start Time", "Finish Time",
                "Distance", "Duration", "Max Speed">>

DateText(y, m, d) == ZeroPad(Str(y), 4) \o <<"-">> \o Format02(m) \o <<"-">> \o Format02(d)

\* one line of the file
Ride(y, m, d, dist, dur, speed) ==
    [c \in Range(CsvColumns) |->
        CASE c = "Recorded On" -> DateText(y, m, d) \o <<" ">> \o <<"19:00:00">>
          [] c = "Activity Date" -> DateText(y, m, d)
          [] c = "Start Time" -> "07:00:00"
          [] c = "Finish Time" -> "18:00:00"
          [] c = "Distance" -> dist
          [] c = "Duration" -> dur
          [] c = "Max Speed" -> speed]

\* The lines a file is made of.  Two years, with June in both; June and July,
\* whose alphabetical order is not the calendar order; distances with a fourth
\* decimal; two equal distances; durations of a day and more; a ride of no
\* duration; and, against the instants of Nows, rides long ago, one exactly 28
\* days before, one within, one after.
RidePool ==
    { Ride(2022, 1, 20, 200000, 3600, 351),
      Ride(2022, 6, 5, 100004, 1800, 402),
      Ride(2023, 6, 1, 253004, 86400, 300),
      Ride(2023, 6, 15, 200000, 200000, 351),
      Ride(2023, 7, 10, 54005, 0, 280) }

\* the contents a file can have: up to MaxRows lines, a line may occur twice
Files == UNION {[1..n -> RidePool] : n \in 0..MaxRows}

\* the values datetime.now() takes
Nows == { [year |-> 2023, month |-> 6, day |-> 29, sec |-> 0],
          [year |-> 2023, month |-> 6, day |-> 29, sec |-> 36000] }

\* the years a caller asks for; no ride is of 2021
YearInputs == {2021, 2022, 2023}

csv_file_path == "cycling_data.csv"

----------------------------------------------------------------------------
(* read_csv *)

\* pd.read_csv: the lines under a RangeIndex
pd_read_csv(file) ==
    [index |-> [i \in 1..Len(file) |-> i - 1], columns |-> CsvColumns, rows |-> file]

\* round(Distance / Duration * 3600, 2) in floating point: infinite for a duration
\* of 0 and a positive distance, not a number for 0 / 0
AvgSpeed(dist, dur) ==
    IF dur = 0 THEN [kind |-> IF dist = 0 THEN "nan" ELSE "inf", v |-> 0]
    ELSE [kind |-> "num", v |-> RoundHalfEven(dist * 36, dur)]

\* hours, minutes and seconds of the whole duration, the hours not wrapping at 24
RideTimeWhole(d) ==
    Format02(d \div 3600) \o <<":">> \o Format02((d % 3600) \div 60)
    \o <<":">> \o Format02(d % 60)

\* pd.to_datetime(seconds, unit="s").strftime("%H:%M:%S")
RideTime(d) == Strf_HMS(FromSeconds(d))

\* lines 13 to 16: Ride Time, Activity Date, MonthNum, Month
read_csv_dates(f) ==
    WithColumn(
      WithColumn(
        WithColumn(
          WithColumn(f, "Ride Time", LAMBDA r : RideTime(r["Duration"])),
          "Activity Date", LAMBDA r : ParseDate(r["Activity Date"])),
        "MonthNum", LAMBDA r : Strf_m(r["Activity Date"])),
      "Month", LAMBDA r : Strf_b(r["Activity Date"]))

\* lines 18 to 21: Year as text, Year as integer, Avg Speed
read_csv_year_speed(f) ==
    WithColumn(
      WithColumn(
        WithColumn(f, "Year", LAMBDA r : Strf_Y(r["Activity Date"])),
        "Year", LAMBDA r : ParseInt(r["Year"])),
      "Avg Speed", LAMBDA r : AvgSpeed(r["Distance"], r["Duration"]))

\* the body of read_csv
read_csv(file) == read_csv_year_speed(read_csv_dates(pd_read_csv(file)))

\* st.cache_data, a hit, had the decorator memoized pd.read_csv instead of read_csv
CacheLookupRaw(c, key) == SelectColumns(c[key], CsvColumns)

\* st.cache_data, a hit: a copy of the stored value
CacheLookup(c, key) == c[key]

\* st.cache_data, a miss: the value is stored under the key
CacheStore(c, key, value) == (key :> value) @@ c

----------------------------------------------------------------------------
(* The query functions *)

\* .agg(stats).round(3) of the values of one group
AggStat(st, vals) ==
    CASE st = "sum" -> Round3(SumSeq(vals))
      [] st = "count" -> Len(vals)
      [] st = "mean" -> Round3Div(SumSeq(vals), Len(vals))
      [] st = "max" -> Round3(MaxSeq(vals))

\* f.groupby([k])[c].agg(stats).round(3), keys being the group keys in sorted order
GroupAgg(f, k, keys, c, stats) ==
    [index |-> keys,
     columns |-> stats,
     rows |-> [i \in 1..Len(keys) |->
                  [st \in Range(stats) |-> AggStat(st, GroupValues(f, k, keys[i], c))]]]

\* the condition df["Year"] >= year
YearAtLeast(f, year) == [i \in 1..NRows(f) |-> f.rows[i]["Year"] >= year]

\* the condition df["Year"] == year
YearIs(f, year) == [i \in 1..NRows(f) |-> f.rows[i]["Year"] = year]

\* the position of a month name in the alphabetical order of the names
AlphaRank(name) ==
    CHOOSE i \in 1..12 : name = <<"Apr", "Aug", "Dec", "Feb", "Jan", "Jul",
                                  "Jun", "Mar", "May", "Nov", "Oct", "Sep">>[i]

\* the elements of S in ascending order of rank, the ranks being distinct
SortedBy(S, rank(_)) ==
    [i \in 1..Cardinality(S) |->
        CHOOSE k \in S : Cardinality({j \in S : rank(j) < rank(k)}) = i - 1]

\* the group keys of groupby(["MonthNum"]) in the order of the month names
MonthKeysByName(f) ==
    SortedBy(Range(Column(f, "MonthNum")), LAMBDA k : AlphaRank(Strf_b(ParseMonth(k))))

\* the group keys of groupby(["MonthNum"]): the month numbers in ascending order
MonthKeys(f) == SortTexts(Range(Column(f, "MonthNum")))

\* lines 34 to 39: the rows of the year, aggregated by month
monthly_summary_agg(e, d, year) ==
    Assign(e, "monthly_summary_df",
           GroupAgg(MaskRows(Obj(e, d), YearIs(Obj(e, d), year)), "MonthNum",
                    MonthKeys(MaskRows(Obj(e, d), YearIs(Obj(e, d), year))), "Distance",
                    <<"sum", "count", "mean", "max">>))

\* line 42: the month name column, from the month number of the index
monthly_summary_month(e) ==
    Mutate(e, "monthly_summary_df",
           WithColumnOfIndex(Obj(e, "monthly_summary_df"), "Month",
                             LAMBDA k : Strf_b(ParseMonth(k))))

\* lines 44 to 46: rename(columns=..., inplace=True)
monthly_summary_rename(e) ==
    Mutate(e, "monthly_summary_df",
           RenameColumns(Obj(e, "monthly_summary_df"),
                         [c \in {"sum", "count", "mean"} |->
                             CASE c = "sum" -> "Distance"
                               [] c = "count" -> "Rides"
                               [] c = "mean" -> "Avg Dist"]))

\* monthly_summary_by_year(d, year); returns monthly_summary_df
monthly_summary_by_year(e, d, year) ==
    monthly_summary_rename(monthly_summary_month(monthly_summary_agg(e, d, year)))

\* line 57: the distances aggregated by day
day_agg(e, d) ==
    Assign(e, "day_agg",
           GroupAgg(Obj(e, d), "Activity Date",
                    SortDates(Range(Column(Obj(e, d), "Activity Date"))),
                    "Distance", <<"sum", "count", "mean">>))

\* top_n_days(d, n); returns top_n_days_df
top_n_days(e, d, n) == nlargest(day_agg(e, d), "top_n_days_df", "day_agg", n, "sum")

\* top_n_rides(d, n); returns top_n_rides_df
top_n_rides(e, d, n) ==
    drop_inplace(nlargest(e, "top_n_rides_df", d, n, "Distance"),
                 "top_n_rides_df", {"Recorded On"})

\* top_max_speeds(d, n); returns max_speeds_df
top_max_speeds(e, d, n) ==
    drop_inplace(nlargest(e, "max_speeds_df", d, n, "Max Speed"),
                 "max_speeds_df", {"Recorded On", "Finish Time"})

\* f"{x:.5g}" as a number: x to 5 significant digits
RECURSIVE Sig5(_)
Sig5(x) == IF x < 100000 THEN x ELSE 10 * Sig5(RoundHalfEven(x, 10))

\* the total rendered as a time of day, the way Ride Time is
DurationTextOfDay(total) == Strf_HMS(FromSeconds(total))

\* f"{hrs:02}:{mins:02}:{sec:02}" of a number of seconds
DurationText(total) ==
    Format02(total \div 3600) \o <<":">> \o Format02((total % 3600) \div 60)
    \o <<":">> \o Format02(total % 60)

\* the four values summary_metrics computes
Metrics(f) ==
    [total_dist |-> Sig5(SumSeq(Column(f, "Distance"))),
     total_duration |-> DurationText(SumSeq(Column(f, "Duration"))),
     rides |-> NRows(f),
     active_days |-> Cardinality(Range(Column(f, "Activity Date")))]

\* summary_metrics(d): the four values go to the page
summary_metrics(e, d) == Show(e, "metrics", Metrics(Obj(e, d)))

----------------------------------------------------------------------------
(* The views *)

\* years = df["Year"].unique().tolist()
Years(f) == Unique(Column(f, "Year"))

\* lines 106 and 107: the metrics of the rows of the year
monthly_summary_metrics(e, year) ==
    summary_metrics(getitem_mask(e, "year_df", "df", YearIs(Obj(e, "df"), year)), "year_df")

\* lines 110 to 118: the month name becomes the index; chart and table
monthly_summary_show(e) ==
    Show(set_index_inplace(e, "monthly_summary_df", "Month"),
         "dataframe", SetIndex(Obj(e, "monthly_summary_df"), "Month"))

st_lit_monthly_summary(e, year) ==
    monthly_summary_show(monthly_summary_by_year(monthly_summary_metrics(e, year), "df", year))

\* the condition df["Activity Date"].dt.strftime("%Y") == str(year_filter)
YearTextIs(f, year_filter) ==
    [i \in 1..NRows(f) |-> Strf_Y(f.rows[i]["Activity Date"]) = Str(year_filter)]

\* lines 133 to 137; year_filter is a year of the table, or 0 for the choice "All"
longest_rides_filter(e, year_filter) ==
    IF year_filter # 0
    THEN getitem_mask(e, "filtered_df", "df", YearTextIs(Obj(e, "df"), year_filter))
    ELSE Alias(e, "filtered_df", "df")

\* lines 140 and 141: the top rides of the filtered table, four columns of them
longest_rides_top(e, top_n) ==
    getitem_columns(top_n_rides(e, "filtered_df", top_n), "top_n_df", "top_n_rides_df",
                    <<"Activity Date", "Distance", "Ride Time", "Avg Speed">>)

\* lines 144 to 147: the date as text (the reset_index result is dropped); the table
longest_rides_show(e) ==
    Show(Mutate(e, "top_n_df",
                WithColumn(Obj(e, "top_n_df"), "Activity Date",
                           LAMBDA r : Strf_bdY(r["Activity Date"]))),
         "dataframe",
         WithColumn(Obj(e, "top_n_df"), "Activity Date",
                    LAMBDA r : Strf_bdY(r["Activity Date"])))

st_lit_longest_rides(e, top_n, year_filter) ==
    longest_rides_show(longest_rides_top(longest_rides_filter(e, year_filter), top_n))

margins_name == <<"T", "o", "t", "a", "l">>

\* the years in ascending order
SortedYears(f) == SortedBy(Range(Column(f, "Year")), LAMBDA y : y)

\* the pairs (MonthNum, Month) of the table
MonthPairs(f) == {<<f.rows[i]["MonthNum"], f.rows[i]["Month"]>> : i \in 1..NRows(f)}

\* the rows of the pivot in the order of the month names alone
PivotKeysByName(f) == SortedBy(MonthPairs(f), LAMBDA k : AlphaRank(k[2]))

\* the rows of the pivot: the pairs (MonthNum, Month) in ascending order; the
\* month name is a function of the month number, so the number decides
PivotKeys(f) ==
    SortedBy(MonthPairs(f), LAMBDA k : Cardinality({j \in MonthPairs(f) : LexLess(j[1], k[1])}))

\* the distances of the rows of f that satisfy test, in row order
DistancesWhere(f, test(_)) == Column(MaskRows(f, [i \in 1..NRows(f) |-> test(f.rows[i])]), "Distance")

\* a cell summing the month over all years
PivotCellAnyYear(f, key, y) ==
    IF \A i \in 1..NRows(f) : f.rows[i]["MonthNum"] # key[1] THEN 0
    ELSE SumSeq(DistancesWhere(f, LAMBDA x : x["MonthNum"] = key[1]))

\* aggfunc="sum" of the rides of the month and year; fill_value where there are none
PivotCell(f, key, y) ==
    IF \A i \in 1..NRows(f) : ~(/\ f.rows[i]["MonthNum"] = key[1]
                                /\ f.rows[i]["Month"] = key[2]
                                /\ f.rows[i]["Year"] = y)
    THEN 0
    ELSE SumSeq(DistancesWhere(f, LAMBDA x : x["MonthNum"] = key[1] /\ x["Month"] = key[2]
                                             /\ x["Year"] = y))

\* the rows of the pivot under the margins: one per pair, its cells and its Total
PivotRows(f, keys, Y) ==
    [i \in 1..Len(keys) |->
        [cells |-> [y \in Y |-> PivotCell(f, keys[i], y)],
         Total |-> SumSeq(DistancesWhere(f, LAMBDA x : x["MonthNum"] = keys[i][1]
                                                       /\ x["Month"] = keys[i][2]))]]

\* the margins row: the sum of each year, and the sum of all
PivotMargin(f, Y) ==
    [cells |-> [y \in Y |-> SumSeq(DistancesWhere(f, LAMBDA x : x["Year"] = y))],
     Total |-> SumSeq(Column(f, "Distance"))]

\* df.pivot_table(values="Distance", index=["MonthNum", "Month"], columns="Year",
\* aggfunc="sum", fill_value=0, margins=True, margins_name="Total"); the margins
\* are aggregated from the data, not from the cells
pivot_table(f) ==
    [index |-> Append(PivotKeys(f), <<margins_name, "">>),
     columns |-> SortedYears(f),
     rows |-> Append(PivotRows(f, PivotKeys(f), Range(Column(f, "Year"))),
                     PivotMargin(f, Range(Column(f, "Year"))))]

\* pivot_df.droplevel(0)
droplevel0(p) == [p EXCEPT !.index = [i \in 1..Len(p.index) |-> p.index[i][2]]]

\* pivot_df.rename(index={label: new}): every row of that label is relabelled
rename_index(p, label, new) ==
    [p EXCEPT !.index = [i \in 1..Len(p.index) |->
                            IF p.index[i] = label THEN new ELSE p.index[i]]]

\* lines 152 to 160
monthly_totals_pivot(e) == Assign(e, "pivot_df", droplevel0(pivot_table(Obj(e, "df"))))

\* lines 164 and 165
monthly_totals_show(e) ==
    Show(Assign(e, "pivot_df",
                rename_index(Obj(e, "pivot_df"),
                             Obj(e, "pivot_df").index[Len(Obj(e, "pivot_df").index)],
                             "Yearly Totals")),
         "dataframe",
         rename_index(Obj(e, "pivot_df"),
                      Obj(e, "pivot_df").index[Len(Obj(e, "pivot_df").index)],
                      "Yearly Totals"))

st_lit_monthly_totals(e) == monthly_totals_show(monthly_totals_pivot(e))

\* the condition df["Activity Date"] >= datetime.now() - timedelta(weeks=4)
Last4WeeksCondition(f, now) ==
    [i \in 1..NRows(f) |->
        EpochSec(f.rows[i]["Activity Date"]) >= EpochSec(now) - 4 * 7 * 86400]

\* groupby("Activity Date")[["Distance", "Duration"]].agg(["sum"]).droplevel(1, axis=1)
GroupSumByDay(f) ==
    [index |-> SortDates(Range(Column(f, "Activity Date"))),
     columns |-> <<"Distance", "Duration">>,
     rows |-> [i \in 1..Cardinality(Range(Column(f, "Activity Date"))) |->
                  [c \in {"Distance", "Duration"} |->
                      SumSeq(GroupValues(f, "Activity Date",
                                         SortDates(Range(Column(f, "Activity Date")))[i], c))]]]

\* lines 170 to 178: the rows of the window, their metrics, five of their columns
last4weeks_filter(e, now) ==
    getitem_columns(
        summary_metrics(
            getitem_mask(e, "last4weeks_df", "df", Last4WeeksCondition(Obj(e, "df"), now)),
            "last4weeks_df"),
        "last4weeks_df", "last4weeks_df",
        <<"Activity Date", "Distance", "Ride Time", "Avg Speed", "Duration">>)

\* lines 181 to 186: the sums by day, and the Ride Time and Avg Speed of the sums
last4weeks_group_day(e) ==
    Assign(e, "last4weeks_df_group_day",
           WithColumn(
             WithColumn(GroupSumByDay(Obj(e, "last4weeks_df")),
                        "Ride Time", LAMBDA r : RideTime(r["Duration"])),
             "Avg Speed", LAMBDA r : AvgSpeed(r["Distance"], r["Duration"])))

\* lines 188 to 214: the two charts
last4weeks_charts(e) ==
    Show(Show(e, "By Ride chart", Obj(e, "last4weeks_df")),
         "By Day chart", Obj(e, "last4weeks_df_group_day"))

\* lines 219 and 220: the Date column, and the four columns of the table
last4weeks_ride_table(e) ==
    getitem_columns(
        Mutate(e, "last4weeks_df",
               WithColumn(Obj(e, "last4weeks_df"), "Date",
                          LAMBDA r : Strf_bdY(r["Activity Date"]))),
        "last4week_df_table", "last4weeks_df",
        <<"Date", "Distance", "Ride Time", "Avg Speed">>)

\* lines 221 and 222
last4weeks_ride_show(e) ==
    Show(set_index_inplace(e, "last4week_df_table", "Date"),
         "By Ride", SetIndex(Obj(e, "last4week_df_table"), "Date"))

\* lines 224 and 225
last4weeks_day_table(e) ==
    getitem_columns(
        Mutate(e, "last4weeks_df_group_day",
               WithColumnOfIndex(Obj(e, "last4weeks_df_group_day"), "Date",
                                 LAMBDA k : Strf_bdY(k))),
        "last4weeks_df_group_day_df_table", "last4weeks_df_group_day",
        <<"Date", "Distance", "Ride Time", "Avg Speed">>)

\* lines 226 and 227
last4weeks_day_show(e) ==
    Show(set_index_inplace(e, "last4weeks_df_group_day_df_table", "Date"),
         "By Day", SetIndex(Obj(e, "last4weeks_df_group_day_df_table"), "Date"))

st_lit_last4weeks(e, now) ==
    last4weeks_day_show(last4weeks_day_table(last4weeks_ride_show(last4weeks_ride_table(
        last4weeks_charts(last4weeks_group_day(last4weeks_filter(e, now)))))))

----------------------------------------------------------------------------
(* The state machine *)

Init ==
    /\ csv_file \in Files
    /\ cache = <<>>
    /\ df = EmptyFrame
    /\ op = "start"
    /\ arg = <<>>
    /\ out = <<>>

\* main: df = read_csv(csv_file_path), through st.cache_data
Call_read_csv ==
    /\ IF csv_file_path \in DOMAIN cache
       THEN /\ df' = CacheLookup(cache, csv_file_path)
            /\ cache' = cache
       ELSE /\ df' = read_csv(csv_file)
            /\ cache' = CacheStore(cache, csv_file_path, read_csv(csv_file))
    /\ op' = "read_csv"
    /\ arg' = [path |-> csv_file_path, hit |-> csv_file_path \in DOMAIN cache]
    /\ out' = df'
    /\ UNCHANGED csv_file

\* what a call leaves: the object df is bound to, and the object returned
Return(name, a, e, result) ==
    /\ df' = e.s[SrcRef]
    /\ out' = Obj(e, result)
    /\ op' = name
    /\ arg' = a
    /\ UNCHANGED <<csv_file, cache>>

\* what a view leaves: the object df is bound to, and the page
Page(name, a, e) ==
    /\ df' = e.s[SrcRef]
    /\ out' = e.shown
    /\ op' = name
    /\ arg' = a
    /\ UNCHANGED <<csv_file, cache>>

Call_monthly_summary_by_year ==
    /\ op # "start"
    /\ \E year \in YearInputs :
          Return("monthly_summary_by_year", [year |-> year],
                 monthly_summary_by_year(Env(df), "df", year), "monthly_summary_df")

Call_top_n_days ==
    /\ op # "start"
    /\ \E n \in 0..MaxN :
          Return("top_n_days", [n |-> n], top_n_days(Env(df), "df", n), "top_n_days_df")

Call_top_n_rides ==
    /\ op # "start"
    /\ \E n \in 0..MaxN :
          Return("top_n_rides", [n |-> n], top_n_rides(Env(df), "df", n), "top_n_rides_df")

Call_top_max_speeds ==
    /\ op # "start"
    /\ \E n \in 0..MaxN :
          Return("top_max_speeds", [n |-> n], top_max_speeds(Env(df), "df", n),
                 "max_speeds_df")

Call_summary_metrics ==
    /\ op # "start"
    /\ Page("summary_metrics", <<>>, summary_metrics(Env(df), "df"))

\* the selectbox offers the years of the table; a table without rows offers none
View_monthly_summary ==
    /\ op # "start"
    /\ \E year \in Range(Years(df)) :
          Page("st_lit_monthly_summary", [year |-> year], st_lit_monthly_summary(Env(df), year))

\* the selectbox offers the years of the table and "All" (0)
View_longest_rides ==
    /\ op # "start"
    /\ \E top_n \in 0..MaxN, year_filter \in Range(Years(df)) \cup {0} :
          Page("st_lit_longest_rides", [top_n |-> top_n, year_filter |-> year_filter],
               st_lit_longest_rides(Env(df), top_n, year_filter))

\* of a table that has rows: what pivot_table with margins makes of a table
\* without rows, and index[-1] of it, is left out
View_monthly_totals ==
    /\ op # "start"
    /\ NRows(df) > 0
    /\ Page("st_lit_monthly_totals", <<>>, st_lit_monthly_totals(Env(df)))

View_last4weeks ==
    /\ op # "start"
    /\ \E now \in Nows :
          Page("st_lit_last4weeks", [now |-> now], st_lit_last4weeks(Env(df), now))

Next ==
    \/ Call_read_csv
    \/ Call_monthly_summary_by_year
    \/ Call_top_n_days
    \/ Call_top_n_rides
    \/ Call_top_max_speeds
    \/ Call_summary_metrics
    \/ View_monthly_summary
    \/ View_longest_rides
    \/ View_monthly_totals
    \/ View_last4weeks

Spec == Init /\ [][Next]_vars

----------------------------------------------------------------------------
(* Properties *)

\* the sum of vals over the positions P, computed apart from the code's sums
RECURSIVE TotalOver(_, _)
TotalOver(vals, P) ==
    IF P = {} THEN 0
    ELSE LET i == CHOOSE j \in P : TRUE IN vals[i] + TotalOver(vals, P \ {i})

Rows(f) == 1..NRows(f)

\* the rows of df of a year
RowsOfYear(y) == {i \in Rows(df) : df.rows[i]["Year"] = y}

DistanceOver(P) == TotalOver([i \in Rows(df) |-> df.rows[i]["Distance"]], P)

DurationOver(P) == TotalOver([i \in Rows(df) |-> df.rows[i]["Duration"]], P)

MonthNumberOf(name) == CHOOSE m \in 1..12 : MonthAbbr[m] = name

\* a text of the shape H..H:MM:SS read back: its three fields
Fields(text) == Split(text, ":")

AllDigits(s) == \A i \in 1..Len(s) : IsDigit(s[i])

SecondsOf(text) ==
    ParseInt(Fields(text)[1]) * 3600 + ParseInt(Fields(text)[2]) * 60
    + ParseInt(Fields(text)[3])

\* the rows of df a last-4-weeks view kept
Kept == {i \in Rows(df) : df.index[i] \in Range(out["By Ride chart"].index)}

WindowLow == EpochSec(arg.now) - 28 * 86400

WindowHigh == EpochSec(arg.now)

DateOf(i) == EpochSec(df.rows[i]["Activity Date"])

\* C1: in the last-4-weeks view every row kept is dated within [now - 28 days, now]
\* and every row left out is dated strictly outside that interval.
C1_Last4WeeksWindow ==
    op = "st_lit_last4weeks" =>
        \A i \in Rows(df) :
            /\ i \in Kept => (WindowLow <= DateOf(i) /\ DateOf(i) <= WindowHigh)
            /\ i \notin Kept => (DateOf(i) < WindowLow \/ DateOf(i) > WindowHigh)

\* C2: top_n_rides(df, n) has min(n, rows) rows, which are distinct rows of df in
\* descending order of distance, each at least as long as every row not returned.
C2_TopNRides ==
    op = "top_n_rides" =>
        /\ NRows(out) = (IF arg.n < NRows(df) THEN arg.n ELSE NRows(df))
        /\ \A i, j \in Rows(out) : i < j =>
              /\ out.rows[i]["Distance"] >= out.rows[j]["Distance"]
              /\ out.index[i] # out.index[j]
        /\ \A i \in Rows(out) : \E k \in Rows(df) :
              /\ df.index[k] = out.index[i]
              /\ df.rows[k]["Distance"] = out.rows[i]["Distance"]
        /\ \A i \in Rows(out), k \in Rows(df) :
              df.index[k] \notin Range(out.index) =>
                  out.rows[i]["Distance"] >= df.rows[k]["Distance"]

C2_Witness ==
    /\ op = "top_n_rides"
    /\ 0 < arg.n /\ arg.n < NRows(df)
    /\ df.rows[1]["Distance"] < df.rows[2]["Distance"]

\* C3 as claimed: the Distance column of monthly_summary_by_year(df, Y) sums to the
\* total distance of the rows of year Y, and the Rides column to their number.
C3_SumEqualsTotal ==
    op = "monthly_summary_by_year" =>
        /\ SumSeq(Column(out, "Distance")) = DistanceOver(RowsOfYear(arg.year))
        /\ SumSeq(Column(out, "Rides")) = Cardinality(RowsOfYear(arg.year))

\* C3 as amended: each Distance is the sum of its month's rides of year Y rounded
\* to 3 decimals, so the column sums to the year's total within 0.0005 km per row
\* of the result, and to the total itself when no distance has a fourth decimal;
\* the Rides column sums to the number of rows of year Y.
C3_SumWithinRounding ==
    op = "monthly_summary_by_year" =>
        LET Y == RowsOfYear(arg.year)
            InMonth(k) == {i \in Y : df.rows[i]["MonthNum"] = k}
            diff == SumSeq(Column(out, "Distance")) - DistanceOver(Y)
        IN /\ \A r \in Rows(out) :
                 /\ out.rows[r]["Distance"] % 10 = 0
                 /\ 2 * (out.rows[r]["Distance"] - DistanceOver(InMonth(out.index[r]))) \in -10..10
                 /\ out.rows[r]["Rides"] = Cardinality(InMonth(out.index[r]))
           /\ 2 * diff <= 10 * NRows(out)
           /\ 2 * diff >= -10 * NRows(out)
           /\ (\A i \in Y : df.rows[i]["Distance"] % 10 = 0) => diff = 0
           /\ SumSeq(Column(out, "Rides")) = Cardinality(Y)

C3_Witness ==
    /\ op = "monthly_summary_by_year"
    /\ NRows(out) = 2
    /\ SumSeq(Column(out, "Distance")) # DistanceOver(RowsOfYear(arg.year))

\* C4: in the monthly pivot each cell is the summed distance of its month and year
\* (0 where there is none); each year's cells sum to its entry in the totals row
\* and to the sum of the distances of that year; each month's Total is the sum of
\* its cells.
C4_PivotSums ==
    op = "st_lit_monthly_totals" =>
        LET p == out["dataframe"]
            n == Len(p.index)
            years == Range(p.columns)
        IN /\ years = {df.rows[i]["Year"] : i \in Rows(df)}
           /\ \A r \in 1..(n - 1), y \in years :
                 p.rows[r].cells[y] =
                     DistanceOver({i \in RowsOfYear(y) : df.rows[i]["Month"] = p.index[r]})
           /\ \A y \in years :
                 /\ TotalOver([r \in 1..(n - 1) |-> p.rows[r].cells[y]], 1..(n - 1))
                        = p.rows[n].cells[y]
                 /\ p.rows[n].cells[y] = DistanceOver(RowsOfYear(y))
           /\ \A r \in 1..(n - 1) :
                 p.rows[r].Total = TotalOver(p.rows[r].cells, years)

C4_Witness ==
    /\ op = "st_lit_monthly_totals"
    /\ Len(out["dataframe"].index) = 3
    /\ Len(out["dataframe"].columns) = 2
    /\ \E y \in Range(out["dataframe"].columns) :
          out["dataframe"].rows[1].cells[y] = 0 /\ out["dataframe"].rows[2].cells[y] > 0

\* C5: whatever queries and views have run, the table df is bound to is the table
\* the load stored: same rows, same columns, same values.
C5_SourceReadOnly == op # "start" => df = cache[csv_file_path]

C5_Witness ==
    /\ op = "st_lit_longest_rides"
    /\ arg.year_filter = 0
    /\ arg.top_n > 0
    /\ NRows(df) > 1
    /\ "Recorded On" \in Range(df.columns)
    /\ NRows(out["dataframe"]) > 0

\* the rows of df whose metrics the page shows
MetricRows ==
    CASE op = "summary_metrics" -> Rows(df)
      [] op = "st_lit_monthly_summary" -> RowsOfYear(arg.year)
      [] op = "st_lit_last4weeks" -> Kept

ShowsMetrics == op \in {"summary_metrics", "st_lit_monthly_summary", "st_lit_last4weeks"}

MetricDates == {df.rows[i]["Activity Date"] : i \in MetricRows}

\* C6 as claimed: the total duration is HH:MM:SS, each field of exactly two digits,
\* MM and SS in 00..59, worth the sum of the durations; rides is the number of rows
\* and active days the number of distinct dates.
C6_TwoDigitFields ==
    ShowsMetrics =>
        LET f == Fields(out["metrics"].total_duration)
        IN /\ Len(f) = 3
           /\ \A k \in 1..3 : Len(f[k]) = 2 /\ AllDigits(f[k])
           /\ ParseInt(f[2]) \in 0..59 /\ ParseInt(f[3]) \in 0..59
           /\ SecondsOf(out["metrics"].total_duration) = DurationOver(MetricRows)
           /\ out["metrics"].rides = Cardinality(MetricRows)
           /\ out["metrics"].active_days = Cardinality(MetricDates)

\* C6 as amended: the total duration is H..H:MM:SS, MM and SS of exactly two digits
\* in 00..59, the hours of at least two digits: exactly two below 100 hours, and
\* as many as the number needs from 100 hours on; the fields are worth the sum of
\* the durations; rides is the number of rows and active days the number of
\* distinct dates.
C6_DurationFields ==
    ShowsMetrics =>
        LET f == Fields(out["metrics"].total_duration)
            total == DurationOver(MetricRows)
        IN /\ Len(f) = 3
           /\ \A k \in 1..3 : AllDigits(f[k])
           /\ Len(f[2]) = 2 /\ Len(f[3]) = 2
           /\ ParseInt(f[2]) \in 0..59 /\ ParseInt(f[3]) \in 0..59
           /\ Len(f[1]) >= 2
           /\ (total < 360000 <=> Len(f[1]) = 2)
           /\ Len(f[1]) > 2 => f[1][1] # "0"
           /\ SecondsOf(out["metrics"].total_duration) = total
           /\ out["metrics"].rides = Cardinality(MetricRows)
           /\ out["metrics"].active_days = Cardinality(MetricDates)

C6_Witness ==
    /\ op = "st_lit_monthly_summary"
    /\ Len(Fields(out["metrics"].total_duration)[1]) = 3
    /\ out["metrics"].rides = 2
    /\ out["metrics"].active_days = 1

C8_MonthlyRows ==
    op = "monthly_summary_by_year" =>
        /\ Range(out.index) = {df.rows[i]["MonthNum"] : i \in RowsOfYear(arg.year)}
        /\ \A r, q \in Rows(out) : r < q => ParseInt(out.index[r]) < ParseInt(out.index[q])
        /\ \A r \in Rows(out) :
              /\ Len(out.index[r]) = 2
              /\ ParseInt(out.index[r]) \in 1..12
              /\ out.rows[r]["Month"] = MonthAbbr[ParseInt(out.index[r])]
        /\ RowsOfYear(arg.year) = {} => NRows(out) = 0

C8_Witness ==
    /\ op = "monthly_summary_by_year"
    /\ NRows(out) = 2
    /\ out.rows[1]["Month"] = "Jun" /\ out.rows[2]["Month"] = "Jul"

\* C9: in the monthly pivot of a table that has rows, the month rows come in
\* calendar order, labelled by the month names of the table and nothing else, and
\* the one row labelled Yearly Totals is the last.
C9_PivotOrder ==
    op = "st_lit_monthly_totals" =>
        LET p == out["dataframe"]
            n == Len(p.index)
        IN /\ n = Len(p.rows)
           /\ p.index[n] = "Yearly Totals"
           /\ \A r \in 1..(n - 1) : p.index[r] # "Yearly Totals"
           /\ {p.index[r] : r \in 1..(n - 1)} = {df.rows[i]["Month"] : i \in Rows(df)}
           /\ \A r, q \in 1..(n - 1) :
                 r < q => MonthNumberOf(p.index[r]) < MonthNumberOf(p.index[q])

C9_Witness ==
    /\ op = "st_lit_monthly_totals"
    /\ Len(out["dataframe"].index) = 3
    /\ out["dataframe"].index[1] = "Jun"
    /\ out["dataframe"].index[2] = "Jul"

\* a Ride Time text against the seconds it was made from
TimeOfDay(text, d) ==
    /\ Len(Fields(text)) = 3
    /\ \A k \in 1..3 : Len(Fields(text)[k]) = 2 /\ AllDigits(Fields(text)[k])
    /\ ParseInt(Fields(text)[1]) \in 0..23
    /\ SecondsOf(text) = d % 86400
    /\ (SecondsOf(text) = d <=> d < 86400)
    /\ (text = DurationText(d) <=> d < 86400)

====
